---- MODULE Spec2Model ----
(***************************************************************************)
(* tkfontawesome: icon_to_image / svg_to_image / _get_icon_file /          *)
(* _collect_svg_files, modelled statement by statement.                    *)
(*                                                                         *)
(* Python values are tagged records, so that None, 0, 1, 1.0 and "" stay   *)
(* distinct values with Python's equality and truthiness between them.     *)
(* File names are sequences of characters, so that Path.stem is computed.  *)
(***************************************************************************)
EXTENDS Integers, Sequences, FiniteSets, TLC

\* Largest number of files the bundled asset store holds.
MaxFiles == 2

-----------------------------------------------------------------------------
\* Python values

None == [t |-> "None"]
PyInt(n) == [t |-> "int", h |-> 2 * n]          \* h: the value in halves
PyFloat(halves) == [t |-> "float", h |-> halves]
PyStr(s) == [t |-> "str", v |-> s]

IsNumber(x) == x.t \in {"int", "float"}

\* Python's ==, as `scale != 1` uses it: numbers compare by value (1 == 1.0).
PyEq(x, y) == IF IsNumber(x) /\ IsNumber(y) THEN x.h = y.h ELSE x = y

\* Python's truth value, as `if scale_to_width:` uses it.
Truthy(x) ==
    CASE x.t = "None" -> FALSE
      [] IsNumber(x) -> x.h # 0
      [] x.t = "str" -> x.v # ""
      [] OTHER -> TRUE

-----------------------------------------------------------------------------
\* Paths and the file system

Categories == <<"brands", "regular", "solid">>

PathOf(d, n) == [t |-> "Path", dir |-> d, name |-> n]
FileObj(p) == [t |-> "FileObj", path |-> p]

\* Index of the last "." of a file name, 0 when it has none (str.rfind + 1).
RECURSIVE RFindDot(_, _)
RFindDot(name, i) ==
    IF i = 0 THEN 0
    ELSE IF name[i] = "." THEN i ELSE RFindDot(name, i - 1)

\* pathlib's PurePath.stem: the final component without its last suffix; a
\* leading dot or a trailing dot starts no suffix.
Stem(name) ==
    LET i == RFindDot(name, Len(name))
    IN  IF 1 < i /\ i < Len(name) THEN SubSeq(name, 1, i - 1) ELSE name

\* File names a store directory may hold: two that differ in case only, one
\* without a suffix (same stem as the first), one with two dots.
FileNames ==
    { <<"a", ".", "s">>, <<"A", ".", "s">>, <<"a">>, <<"a", ".", "b", ".", "s">> }

\* Icon names a caller asks for.
IconNames == { <<"a">>, <<"A">>, <<"b">>, <<"a", ".", "b">> }

CategorySet == {Categories[i] : i \in 1..Len(Categories)}
StoreSlots == {PathOf(d, n) : d \in CategorySet, n \in FileNames}

UserFill == PathOf("user", <<"f", ".", "s">>)
UserBad == PathOf("user", <<"x", ".", "s">>)
UserMissing == PathOf("user", <<"m", ".", "s">>)
UserFiles == {UserFill, UserBad}

ViewBox == <<"viewBox", "0 0 512 512">>

\* The text of each file: a well-formed document is its XML declaration flag,
\* the root's attributes in document order, and the rest of its content.
FileText(p) ==
    CASE p = UserBad -> [wf |-> FALSE]
      [] p = UserFill ->
            [wf |-> TRUE, decl |-> TRUE,
             attrib |-> << <<"fill", "#000000">>, ViewBox >>, body |-> p]
      [] p.dir = "brands" ->
            [wf |-> TRUE, decl |-> TRUE, attrib |-> << ViewBox >>, body |-> p]
      [] p.dir = "regular" ->
            [wf |-> TRUE, decl |-> FALSE,
             attrib |-> << <<"fill", "#000000">>, ViewBox >>, body |-> p]
      [] OTHER ->
            [wf |-> TRUE, decl |-> FALSE,
             attrib |-> << ViewBox, <<"fill", "currentColor">> >>, body |-> p]

-----------------------------------------------------------------------------
\* _collect_svg_files and _get_icon_file

\* Every order in which Path.iterdir may yield the entries of a directory.
Orderings(S) ==
    {s \in [1..Cardinality(S) -> S] : \A i, j \in 1..Cardinality(S) : s[i] = s[j] => i = j}

DirEntries(fsv, d) == {p \in DOMAIN fsv : p.dir = d}

collect_svg_files_solid_first(fsv) ==
    {ls \o lr \o lb : lb \in Orderings(DirEntries(fsv, Categories[1])),
                      lr \in Orderings(DirEntries(fsv, Categories[2])),
                      ls \in Orderings(DirEntries(fsv, Categories[3]))}

\* The lists _collect_svg_files may return: brands, then regular, then solid.
collect_svg_files(fsv) ==
    {lb \o lr \o ls : lb \in Orderings(DirEntries(fsv, Categories[1])),
                      lr \in Orderings(DirEntries(fsv, Categories[2])),
                      ls \in Orderings(DirEntries(fsv, Categories[3]))}

Lower(c) == IF c = "A" THEN "a" ELSE c
LowerAll(s) == [i \in 1..Len(s) |-> Lower(s[i])]

StemMatchesIgnoringCase(file, name) == LowerAll(Stem(file.name)) = LowerAll(name)

\* `file.stem == name`
StemMatches(file, name) == Stem(file.name) = name

NotFoundMessageWithoutName(name) ==
    <<"'", "'", " is not a valid icon name. Check spelling and consult https://fontawesome.com/v5.0/icons.">>

\* The f-string of the raised Exception.
NotFoundMessage(name) ==
    <<"'">> \o name \o
    <<"'", " is not a valid icon name. Check spelling and consult https://fontawesome.com/v5.0/icons.">>

Raise(type, msg) == [t |-> "raise", type |-> type, msg |-> msg]
Return(value) == [t |-> "return", value |-> value]

RECURSIVE ScanFrom(_, _, _)
ScanFrom(files, name, i) ==
    IF i > Len(files) THEN Raise("Exception", NotFoundMessage(name))
    ELSE IF StemMatches(files[i], name) THEN Return(files[i])
    ELSE ScanFrom(files, name, i + 1)

\* The for loop of _get_icon_file over the collected list.
get_icon_file(files, name) == ScanFrom(files, name, 1)

-----------------------------------------------------------------------------
\* The calls svg_to_image makes: open, etree.parse, attrib[...] = ..., tree.write,
\* tksvg.SvgImage

\* open(source): a str or a Path names a file; a file object is no file name.
PyOpen(fsv, source) ==
    IF source.t = "FileObj"
    THEN Raise("TypeError", <<"expected str, bytes or os.PathLike object, not TextIOWrapper">>)
    ELSE IF source \notin DOMAIN fsv
    THEN Raise("FileNotFoundError", <<"No such file or directory">>)
    ELSE Return([t |-> "TextIOWrapper", path |-> source])

ParseLenient(text) ==
    IF ~text.wf
    THEN Return([docinfo |-> [decl |-> FALSE], root |-> [attrib |-> << >>, body |-> None]])
    ELSE Return([docinfo |-> [decl |-> text.decl],
                 root |-> [attrib |-> text.attrib, body |-> text.body]])

\* etree.parse(source=p): the tree keeps the declaration in its docinfo; text
\* that is not well-formed raises.
Parse(text) ==
    IF ~text.wf
    THEN Raise("XMLSyntaxError", <<"Start tag expected">>)
    ELSE Return([docinfo |-> [decl |-> text.decl],
                 root |-> [attrib |-> text.attrib, body |-> text.body]])

HasAttrib(attrib, k) == \E i \in 1..Len(attrib) : attrib[i][1] = k

\* attrib[k] = v: an existing attribute keeps its place, a new one goes last.
SetAttrib(attrib, k, v) ==
    IF HasAttrib(attrib, k)
    THEN [i \in 1..Len(attrib) |-> IF attrib[i][1] = k THEN <<k, v>> ELSE attrib[i]]
    ELSE Append(attrib, <<k, v>>)

SetFillWhenTruthy(tree, fill) ==
    IF Truthy(fill)
    THEN [tree EXCEPT !.root.attrib = SetAttrib(@, "fill", fill.v)]
    ELSE tree

\* if fill is not None: root.attrib["fill"] = fill
SetFill(tree, fill) ==
    IF fill # None
    THEN [tree EXCEPT !.root.attrib = SetAttrib(@, "fill", fill.v)]
    ELSE tree

\* The bytes tree.write produces with its default encoding: no declaration.
Serialize(tree) ==
    [wf |-> TRUE, decl |-> FALSE, attrib |-> tree.root.attrib, body |-> tree.root.body]

tree_write_to_source(fsv, source, tree) ==
    [fs |-> [fsv EXCEPT ![source] = Serialize(tree)], data |-> Serialize(tree)]

\* imgdata = io.BytesIO(); tree.write(imgdata): the file system is left alone.
tree_write(fsv, source, tree) == [fs |-> fsv, data |-> Serialize(tree)]

ScaleKeyWhenTruthy(scale) == Truthy(scale)

\* if scale != 1
ScaleKey(scale) == ~PyEq(scale, PyInt(1))

BuildKwWidthAsHeight(data, scale_to_width, scale_to_height, scale) ==
    LET keys == {"data"}
                \cup (IF Truthy(scale_to_width) THEN {"scaletowidth"} ELSE {})
                \cup (IF Truthy(scale_to_height) THEN {"scaletoheight"} ELSE {})
                \cup (IF ScaleKey(scale) THEN {"scale"} ELSE {})
    IN  [k \in keys |->
            CASE k = "data" -> data
              [] k = "scaletowidth" -> scale_to_width
              [] k = "scaletoheight" -> scale_to_width
              [] OTHER -> scale]

\* kw = {"data": ...} and the three conditional keys.
BuildKw(data, scale_to_width, scale_to_height, scale) ==
    LET keys == {"data"}
                \cup (IF Truthy(scale_to_width) THEN {"scaletowidth"} ELSE {})
                \cup (IF Truthy(scale_to_height) THEN {"scaletoheight"} ELSE {})
                \cup (IF ScaleKey(scale) THEN {"scale"} ELSE {})
    IN  [k \in keys |->
            CASE k = "data" -> data
              [] k = "scaletowidth" -> scale_to_width
              [] k = "scaletoheight" -> scale_to_height
              [] OTHER -> scale]

\* tksvg.SvgImage(**kw): the collaborator returns an image or rejects the
\* configuration; which of the two is its own business.
SvgImage(config, accepted) ==
    IF accepted
    THEN Return([t |-> "SvgImage", kw |-> config])
    ELSE Raise("TclError", <<"couldn't recognize image data">>)

SvgArgsSwapped(f, a) ==
    [source |-> f, fill |-> a.fill, scale_to_width |-> a.scale_to_height,
     scale_to_height |-> a.scale_to_width, scale |-> a.scale]

\* svg_to_image(file, fill, scale_to_width, scale_to_height, scale): the
\* parameters the positional call binds.
SvgArgs(f, a) ==
    [source |-> f, fill |-> a.fill, scale_to_width |-> a.scale_to_width,
     scale_to_height |-> a.scale_to_height, scale |-> a.scale]

-----------------------------------------------------------------------------
\* Arguments the callers pass

Fills == {None, PyStr(""), PyStr("#4267B2")}
Widths == {None, PyInt(0), PyInt(64)}
Heights == {None, PyInt(0), PyInt(32)}
Scales == {PyInt(1), PyFloat(2), PyInt(2)}

\* What a caller passes svg_to_image as source: a path (present or not) or an
\* open file object of a present file.
Sources(fsv) == DOMAIN fsv \cup {UserMissing} \cup {FileObj(UserFill)}

-----------------------------------------------------------------------------
\* State

VARIABLES
    fs,        \* the file system: path -> text (asset store and user files)
    pc,        \* the line about to run, or "idle", "returned", "raised"
    icon,      \* icon_to_image's parameters, None outside it
    svg,       \* svg_to_image's parameters
    file,      \* icon_to_image: file
    img_data,  \* icon_to_image: img_data
    p,         \* svg_to_image: p
    tree,      \* svg_to_image: tree (root is tree.root)
    imgdata,   \* svg_to_image: imgdata.getvalue()
    kw,        \* svg_to_image: kw
    result,    \* what the outermost call returned
    err,       \* the exception the outermost call raised
    trace,     \* the calls out of the module made by the current call, in order
    history    \* the sources whose tree an earlier, finished call gave a fill
               \* (recorded in SpecSeq only; no code reads it)

vars == <<fs, pc, icon, svg, file, img_data, p, tree, imgdata, kw, result, err, trace, history>>

Stores == {S \in SUBSET StoreSlots : Cardinality(S) <= MaxFiles}

Init ==
    /\ \E S \in Stores : fs = [q \in S \cup UserFiles |-> FileText(q)]
    /\ pc = "idle"
    /\ icon = None /\ svg = None
    /\ file = None /\ img_data = None /\ p = None /\ tree = None
    /\ imgdata = None /\ kw = None
    /\ result = None /\ err = None
    /\ trace = <<>>
    /\ history = {}

Settled == pc \in {"returned", "raised"}

\* A caller calls icon_to_image(name, fill, scale_to_width, scale_to_height, scale).
IconToImageCall ==
    /\ pc = "idle"
    /\ \E name \in IconNames, fill \in Fills, w \in Widths, h \in Heights, scale \in Scales :
          icon' = [name |-> name, fill |-> fill, scale_to_width |-> w,
                   scale_to_height |-> h, scale |-> scale]
    /\ pc' = "icon_51"
    /\ UNCHANGED <<fs, svg, file, img_data, p, tree, imgdata, kw, result, err, trace, history>>

IterdirEvents == [i \in 1..Len(Categories) |-> [op |-> "iterdir", dir |-> Categories[i]]]

\* file = _get_icon_file(name)
IconGetIconFile ==
    /\ pc = "icon_51"
    /\ \E files \in collect_svg_files(fs) :
          LET r == get_icon_file(files, icon.name)
          IN  IF r.t = "return"
              THEN file' = r.value /\ pc' = "icon_52" /\ UNCHANGED err
              ELSE err' = r /\ pc' = "raised" /\ UNCHANGED file
    /\ trace' = trace \o IterdirEvents
    /\ UNCHANGED <<fs, icon, svg, img_data, p, tree, imgdata, kw, result, history>>

\* img_data = svg_to_image(file, fill, scale_to_width, scale_to_height, scale)
IconCallSvgToImage ==
    /\ pc = "icon_52"
    /\ svg' = SvgArgs(file, icon)
    /\ pc' = "svg_87"
    /\ UNCHANGED <<fs, icon, file, img_data, p, tree, imgdata, kw, result, err, trace, history>>

\* A caller calls svg_to_image(source, fill, scale_to_width, scale_to_height, scale).
SvgToImageCall ==
    /\ pc = "idle"
    /\ \E source \in Sources(fs), fill \in Fills, w \in Widths, h \in Heights, scale \in Scales :
          svg' = [source |-> source, fill |-> fill, scale_to_width |-> w,
                  scale_to_height |-> h, scale |-> scale]
    /\ pc' = "svg_87"
    /\ UNCHANGED <<fs, icon, file, img_data, p, tree, imgdata, kw, result, err, trace, history>>

\* with open(source) as p:
SvgOpen ==
    /\ pc = "svg_87"
    /\ LET r == PyOpen(fs, svg.source)
       IN  /\ trace' = Append(trace, [op |-> "open", source |-> svg.source, ok |-> r.t = "return"])
           /\ IF r.t = "return"
              THEN p' = r.value /\ pc' = "svg_88" /\ UNCHANGED err
              ELSE err' = r /\ pc' = "raised" /\ UNCHANGED p
    /\ UNCHANGED <<fs, icon, svg, file, img_data, tree, imgdata, kw, result, history>>

\* tree = etree.parse(source=p); root = tree.getroot()
SvgParse ==
    /\ pc = "svg_88"
    /\ LET r == Parse(fs[p.path])
       IN  IF r.t = "return"
           THEN tree' = r.value /\ pc' = "svg_92" /\ UNCHANGED err
           ELSE err' = r /\ pc' = "raised" /\ UNCHANGED tree
    /\ UNCHANGED <<fs, icon, svg, file, img_data, p, imgdata, kw, result, trace, history>>

\* if fill is not None: root.attrib["fill"] = fill
SvgFill ==
    /\ pc = "svg_92"
    /\ tree' = SetFill(tree, svg.fill)
    /\ pc' = "svg_95"
    /\ UNCHANGED <<fs, icon, svg, file, img_data, p, imgdata, kw, result, err, trace, history>>

\* imgdata = io.BytesIO(); tree.write(imgdata)
SvgWrite ==
    /\ pc = "svg_95"
    /\ LET w == tree_write(fs, p.path, tree)
       IN  fs' = w.fs /\ imgdata' = w.data
    /\ pc' = "svg_97"
    /\ UNCHANGED <<icon, svg, file, img_data, p, tree, kw, result, err, trace, history>>

\* kw = {"data": imgdata.getvalue()} and the conditional keys
SvgKw ==
    /\ pc = "svg_97"
    /\ kw' = BuildKw(imgdata, svg.scale_to_width, svg.scale_to_height, svg.scale)
    /\ pc' = "svg_105"
    /\ UNCHANGED <<fs, icon, svg, file, img_data, p, tree, imgdata, result, err, trace, history>>

\* return tksvg.SvgImage(**kw), into img_data when icon_to_image made the call
SvgRender ==
    /\ pc = "svg_105"
    /\ \E accepted \in BOOLEAN :
          LET r == SvgImage(kw, accepted)
          IN  IF r.t = "return"
              THEN IF icon # None
                   THEN img_data' = r.value /\ pc' = "icon_53" /\ UNCHANGED <<result, err>>
                   ELSE result' = r.value /\ pc' = "returned" /\ UNCHANGED <<img_data, err>>
              ELSE err' = r /\ pc' = "raised" /\ UNCHANGED <<img_data, result>>
    /\ trace' = Append(trace, [op |-> "SvgImage", kw |-> kw])
    /\ UNCHANGED <<fs, icon, svg, file, p, tree, imgdata, kw, history>>

\* return img_data
IconReturn ==
    /\ pc = "icon_53"
    /\ result' = img_data
    /\ pc' = "returned"
    /\ UNCHANGED <<fs, icon, svg, file, img_data, p, tree, imgdata, kw, err, trace, history>>

\* The caller takes the image or the exception; the frames of the call are gone,
\* the file system stays.
CallEnds ==
    /\ Settled
    /\ pc' = "idle"
    /\ icon' = None /\ svg' = None
    /\ file' = None /\ img_data' = None /\ p' = None /\ tree' = None
    /\ imgdata' = None /\ kw' = None
    /\ result' = None /\ err' = None
    /\ trace' = <<>>
    /\ UNCHANGED <<fs, history>>

\* The same step, with the source noted when the call gave its tree a fill.
CallEndsRecorded ==
    /\ Settled
    /\ pc' = "idle"
    /\ icon' = None /\ svg' = None
    /\ file' = None /\ img_data' = None /\ p' = None /\ tree' = None
    /\ imgdata' = None /\ kw' = None
    /\ result' = None /\ err' = None
    /\ trace' = <<>>
    /\ history' = IF tree # None /\ svg.fill # None THEN history \cup {p.path} ELSE history
    /\ UNCHANGED fs

Next ==
    \/ IconToImageCall
    \/ IconGetIconFile
    \/ IconCallSvgToImage
    \/ SvgToImageCall
    \/ SvgOpen
    \/ SvgParse
    \/ SvgFill
    \/ SvgWrite
    \/ SvgKw
    \/ SvgRender
    \/ IconReturn
    \/ CallEnds

Spec == Init /\ [][Next]_vars

\* Sequences of calls with the earlier fills recorded, over stores that hold
\* the one icon "a" in any of the categories.
SeqStores == {S \in Stores : \A q \in S : q.name = <<"a", ".", "s">>}

InitSeq ==
    /\ Init
    /\ \E S \in SeqStores : DOMAIN fs = S \cup UserFiles

NextSeq ==
    \/ IconToImageCall
    \/ IconGetIconFile
    \/ IconCallSvgToImage
    \/ SvgToImageCall
    \/ SvgOpen
    \/ SvgParse
    \/ SvgFill
    \/ SvgWrite
    \/ SvgKw
    \/ SvgRender
    \/ IconReturn
    \/ CallEndsRecorded

SpecSeq == InitSeq /\ [][NextSeq]_vars

-----------------------------------------------------------------------------
\* What the properties below speak of

IsRender(e) == e.op = "SvgImage"
IsOpen(e) == e.op = "open"

\* The configurations the current call has sent to tksvg.SvgImage, in order.
Rendered == SelectSeq(trace, IsRender)
Opened == SelectSeq(trace, IsOpen)

InCategories(q) == q.dir \in CategorySet
StoreFiles == {q \in DOMAIN fs : InCategories(q)}
StoreHasStem(n) == \E q \in StoreFiles : Stem(q.name) = n

CategoryIndex(d) == CHOOSE i \in 1..Len(Categories) : Categories[i] = d

\* The value of attribute k of a root, None when the root has none.
AttribValue(attrib, k) ==
    IF HasAttrib(attrib, k)
    THEN PyStr(attrib[CHOOSE i \in 1..Len(attrib) : attrib[i][1] = k][2])
    ELSE None

IsNotFill(a) == a[1] # "fill"
OtherAttribs(attrib) == SelectSeq(attrib, IsNotFill)
FillCount(attrib) == Len(attrib) - Len(OtherAttribs(attrib))

\* The document a byte string or a file text holds, as a parser reads it.
RootOf(text) == Parse(text).value.root

\* n occurs in msg as a run of consecutive characters.
Mentions(msg, n) ==
    \E i \in 0..(Len(msg) - Len(n)) : SubSeq(msg, i + 1, i + Len(n)) = n

ResolverHasRun == icon # None /\ pc # "icon_51"

\* The source names a present file holding a well-formed document.
SourceOf(src) == IF src.t = "FileObj" THEN src.path ELSE src
WellFormedSource(src) == SourceOf(src) \in DOMAIN fs /\ fs[SourceOf(src)].wf

-----------------------------------------------------------------------------
\* C1: once _get_icon_file(n) has run for a name n that is the stem of a file in
\* brands, regular or solid, it has returned a file of the asset store whose
\* stem is exactly n; it never returns a file with another stem.
C1_ResolverReturnsRequestedStem ==
    ResolverHasRun =>
        /\ StoreHasStem(icon.name) => file # None
        /\ file # None => file \in StoreFiles /\ Stem(file.name) = icon.name

\* A name is resolved while the store also holds a stem that differs from it
\* in case only.
C1_Witness ==
    /\ pc = "icon_52"
    /\ Stem(file.name) = icon.name
    /\ \E q \in StoreFiles :
          Stem(q.name) # icon.name /\ LowerAll(Stem(q.name)) = LowerAll(icon.name)

\* C2: once _get_icon_file(n) has run for a name n that is the stem of no file
\* in the three categories, the call has raised an exception whose message
\* holds n, and no path was returned.
C2_UnknownNameRaises ==
    (ResolverHasRun /\ ~StoreHasStem(icon.name)) =>
        /\ pc = "raised"
        /\ err.t = "raise" /\ err.type = "Exception"
        /\ Mentions(err.msg, icon.name)
        /\ file = None /\ result = None

\* An unknown name is refused although the store holds its stem in another case.
C2_Witness ==
    /\ ResolverHasRun /\ pc = "raised"
    /\ ~StoreHasStem(icon.name)
    /\ \E q \in StoreFiles : LowerAll(Stem(q.name)) = LowerAll(icon.name)

\* C3: the file _get_icon_file returns lies in the earliest category, in the
\* order brands, regular, solid, that holds the requested stem, whatever order
\* the directory listings came in.
C3_CategoryPrecedence ==
    (icon # None /\ file # None) =>
        \A q \in StoreFiles :
            Stem(q.name) = icon.name =>
                CategoryIndex(file.dir) <= CategoryIndex(q.dir)

\* The stem is in brands and in regular, and the brands file was returned.
C3_Witness ==
    /\ icon # None /\ file # None
    /\ file.dir = "brands"
    /\ \E q \in StoreFiles : q.dir = "regular" /\ Stem(q.name) = icon.name

\* C4: when svg_to_image is called with a fill f that is not None, the document
\* in the "data" bytes sent to the renderer has exactly one root fill attribute,
\* equal to f, and its other attributes and its content are those of the source.
C4_FillOverride ==
    \A i \in 1..Len(Rendered) :
        svg.fill # None =>
            LET sent == RootOf(Rendered[i].kw["data"])
                src == RootOf(FileText(p.path))
            IN  /\ AttribValue(sent.attrib, "fill") = svg.fill
                /\ FillCount(sent.attrib) = 1
                /\ OtherAttribs(sent.attrib) = OtherAttribs(src.attrib)
                /\ sent.body = src.body

\* A fill was sent in place of the different fill the source carries.
C4_Witness ==
    /\ Len(Rendered) = 1
    /\ svg.fill = PyStr("#4267B2")
    /\ AttribValue(RootOf(FileText(p.path)).attrib, "fill") = PyStr("#000000")

\* C5: in any sequence of calls, a call without fill sends the renderer a
\* document whose root fill attribute is the one of the source file (the same
\* value, or none), also after earlier calls gave that source a fill; the
\* files are as they were before the first call.
C5_NoFillRoundTrip ==
    /\ fs = [q \in DOMAIN fs |-> FileText(q)]
    /\ \A i \in 1..Len(Rendered) :
          svg.fill = None =>
              LET sent == RootOf(Rendered[i].kw["data"])
                  src == RootOf(FileText(p.path))
              IN  /\ AttribValue(sent.attrib, "fill") = AttribValue(src.attrib, "fill")
                  /\ sent = src

\* A call without fill renders a source that carries a fill, after an earlier
\* call gave the same source another fill.
C5_Witness ==
    /\ Len(Rendered) = 1
    /\ svg.fill = None
    /\ p.path \in history
    /\ AttribValue(RootOf(FileText(p.path)).attrib, "fill") # None

\* C6: the configuration sent to the renderer has a "scale" key exactly when
\* the scale argument is not equal to 1, and the key then carries the argument.
C6_ScalePassthrough ==
    \A i \in 1..Len(Rendered) :
        LET sent == Rendered[i].kw
        IN  /\ ("scale" \in DOMAIN sent) <=> ~PyEq(svg.scale, PyInt(1))
            /\ "scale" \in DOMAIN sent => sent["scale"] = svg.scale

\* scale=2 was sent as scale: 2.
C6_Witness ==
    /\ Len(Rendered) = 1
    /\ svg.scale = PyInt(2)
    /\ Rendered[1].kw["scale"] = PyInt(2)

\* C7 as stated: each of "scaletowidth" and "scaletoheight" is in the
\* configuration exactly when its argument is not None, carrying the argument.
C7_Original ==
    \A i \in 1..Len(Rendered) :
        LET sent == Rendered[i].kw
        IN  /\ ("scaletowidth" \in DOMAIN sent) <=> svg.scale_to_width # None
            /\ ("scaletoheight" \in DOMAIN sent) <=> svg.scale_to_height # None
            /\ "scaletowidth" \in DOMAIN sent => sent["scaletowidth"] = svg.scale_to_width
            /\ "scaletoheight" \in DOMAIN sent => sent["scaletoheight"] = svg.scale_to_height

\* C7 as amended: each key is in the configuration exactly when its argument is
\* truthy (neither None nor 0), carrying the argument unchanged; the one key
\* depends on the one argument only.
C7_WidthHeightPassthrough ==
    \A i \in 1..Len(Rendered) :
        LET sent == Rendered[i].kw
        IN  /\ ("scaletowidth" \in DOMAIN sent) <=> Truthy(svg.scale_to_width)
            /\ ("scaletoheight" \in DOMAIN sent) <=> Truthy(svg.scale_to_height)
            /\ "scaletowidth" \in DOMAIN sent => sent["scaletowidth"] = svg.scale_to_width
            /\ "scaletoheight" \in DOMAIN sent => sent["scaletoheight"] = svg.scale_to_height

\* Both were supplied, with different values, and both were sent.
C7_Witness ==
    /\ Len(Rendered) = 1
    /\ svg.scale_to_width = PyInt(64) /\ svg.scale_to_height = PyInt(32)
    /\ Rendered[1].kw["scaletowidth"] = PyInt(64)
    /\ Rendered[1].kw["scaletoheight"] = PyInt(32)

\* C8: a finished svg_to_image call whose source, a path or an open file
\* object, holds a well-formed document has parsed it and delegated to the
\* renderer.
C8_PathOrHandleAccepted ==
    (svg # None /\ Settled /\ WellFormedSource(svg.source)) =>
        /\ tree # None
        /\ Len(Rendered) = 1

\* C9: icon_to_image binds svg_to_image's parameters to the resolved file and
\* its own four other arguments, sends the renderer the configuration
\* svg_to_image builds from them, returns the renderer's image and raises the
\* resolver's or the renderer's exception as it is; with a fill, width 64 and
\* the defaults the configuration is {"data", "scaletowidth": 64}.
C9_IconLookupIsComposition ==
    icon # None =>
        LET expected ==
                BuildKw(Serialize(SetFill(Parse(FileText(file)).value, icon.fill)),
                        icon.scale_to_width, icon.scale_to_height, icon.scale)
        IN  /\ svg # None =>
                  svg = [source |-> file, fill |-> icon.fill,
                         scale_to_width |-> icon.scale_to_width,
                         scale_to_height |-> icon.scale_to_height,
                         scale |-> icon.scale]
            /\ \A i \in 1..Len(Rendered) : Rendered[i].kw = expected
            /\ pc = "returned" =>
                  /\ Len(Rendered) = 1
                  /\ result = SvgImage(expected, TRUE).value
            /\ pc = "raised" =>
                  IF file = None
                  THEN err = Raise("Exception", NotFoundMessage(icon.name))
                  ELSE Len(Rendered) = 1 /\ err = SvgImage(expected, FALSE)
            /\ ( /\ Len(Rendered) = 1
                 /\ icon.fill # None
                 /\ icon.scale_to_width = PyInt(64)
                 /\ icon.scale_to_height = None
                 /\ icon.scale = PyInt(1) ) =>
                  /\ DOMAIN Rendered[1].kw = {"data", "scaletowidth"}
                  /\ Rendered[1].kw["scaletowidth"] = PyInt(64)
                  /\ AttribValue(RootOf(Rendered[1].kw["data"]).attrib, "fill") = icon.fill

\* icon_to_image(name, fill="#4267B2", scale_to_width=64) has returned an image.
C9_Witness ==
    /\ icon # None /\ pc = "returned"
    /\ icon.fill = PyStr("#4267B2")
    /\ icon.scale_to_width = PyInt(64) /\ icon.scale_to_height = None
    /\ icon.scale = PyInt(1)
    /\ result.t = "SvgImage"

\* What holds of every call that failed or returned, whoever raised.
NotFoundBeforeOpen ==
    (pc = "raised" /\ icon # None /\ file = None) => svg = None /\ Len(Opened) = 0

ReturnedAfterOneRender ==
    pc = "returned" =>
        /\ err = None
        /\ icon # None => StoreHasStem(icon.name)
        /\ svg.source \in DOMAIN fs /\ fs[svg.source].wf
        /\ Len(Opened) = 1 /\ Opened[1].ok
        /\ tree # None /\ imgdata = Serialize(tree)
        /\ Len(Rendered) = 1
        /\ trace[Len(trace)] = [op |-> "SvgImage", kw |-> kw]
        /\ kw["data"] = imgdata
        /\ result = [t |-> "SvgImage", kw |-> kw]

\* C10 as stated: an unknown name fails before any file is opened; on any
\* failed call the renderer was never invoked and no image stands in for the
\* result; on every returned call it was invoked exactly once, after parsing
\* and serialization.
C10_Original ==
    /\ NotFoundBeforeOpen
    /\ pc = "raised" => Len(Rendered) = 0 /\ result = None /\ img_data = None
    /\ ReturnedAfterOneRender

\* C10 as amended: the same, with the failed calls told apart by who raised:
\* a call that failed in the resolver, in open or in the parser never invoked
\* the renderer and stopped at the failing statement; a call that failed with
\* the renderer's own exception invoked it once, as its last step.
C10_FailureOrdering ==
    /\ NotFoundBeforeOpen
    /\ pc = "raised" =>
          /\ result = None /\ img_data = None
          /\ err.t = "raise"
          /\ err.type \in {"Exception", "TypeError", "FileNotFoundError", "XMLSyntaxError"} =>
                /\ Len(Rendered) = 0
                /\ imgdata = None /\ kw = None
                /\ err.type # "XMLSyntaxError" => p = None
                /\ tree = None
          /\ err.type = "TclError" =>
                /\ Len(Rendered) = 1
                /\ trace[Len(trace)] = [op |-> "SvgImage", kw |-> kw]
          /\ err.type \in {"Exception", "TypeError", "FileNotFoundError",
                           "XMLSyntaxError", "TclError"}
    /\ ReturnedAfterOneRender

\* A malformed source was opened and the parser's exception ended the call.
C10_Witness ==
    /\ pc = "raised"
    /\ err.type = "XMLSyntaxError"
    /\ Len(Opened) = 1 /\ Len(Rendered) = 0

====
